---- MODULE Spec2Model ----
(***************************************************************************)
(* Model of the POSIX parameter expander: the lexer goroutine (run and its *)
(* state functions), the bracketedStream forwarder goroutines, the         *)
(* evaluator (evalStream / skipStream / the items' Eval methods) and       *)
(* Expand with lexer.Close.  Channels are unbuffered: a send and a receive *)
(* happen together, as one step of the receiving goroutine.                *)
(*                                                                         *)
(* Strings are sequences of one-character strings.                         *)
(***************************************************************************)
EXTENDS Integers, Sequences, FiniteSets, TLC

VARIABLES
    input,      \* lexer.input: the template
    kind,       \* dynamic type of the mapping: "Map", "RWMap" or "Env"
    mapping,    \* the mapping's contents: key -> value, for the keys present
    l,          \* the lexer struct and the position of its goroutine
    closed,     \* lexer.closed has been closed
    chanClosed, \* the channels closed so far (0 is lexer.stream)
    fwd,        \* the bracketedStream goroutines; fwd[c] sends on channel c
    stack,      \* the evaluator's call stack below Expand, innermost last
    mainpc,     \* position of Expand: "eval", "close", "drain", "returned"
    val,        \* the string Expand returns
    err,        \* the error Expand returns
    calls,      \* the Get and Set calls made on the mapping, in order
    closes,     \* how many times close(l.stream) was executed
    emitted,    \* the items received from the lexer's sends on l.stream, in order
    first       \* what an earlier call of Expand with the same arguments returned

vars == <<input, kind, mapping, l, closed, chanClosed, fwd, stack, mainpc, val, err, calls, closes, emitted, first>>

(***************************************************************************)
(* Bounds and inputs                                                       *)
(***************************************************************************)
\* longest template
MaxLen == 13
\* the longest template without brackets, in units (see TextUnits)
MaxText == 3

eof == "EOF"

\* the characters ', ", \ and ` of a template
SQuote == "sq"

DQuote == "dq"

BSlash == "bs"

BTick == "bt"

\* ASCII classes used by the lexer, over the characters of the templates
Letters == {"a", "b", "n", "p", "s", "t", "u", "w", "y", "z", "_"}
Digits == {"0", "1", "2", "3", "4", "5", "6", "7", "8", "9"}

isAlpha(c) == c \in Letters

isNum(c) == c \in Digits

isAlphaNum(c) == isAlpha(c) \/ isNum(c)

(***************************************************************************)
(* Items                                                                   *)
(***************************************************************************)
itemText(s) == [t |-> "Text", s |-> s, op |-> "", nullIsEmpty |-> FALSE]

itemEndBracket == [t |-> "EndBracket", s |-> <<>>, op |-> "", nullIsEmpty |-> FALSE]

itemUnexpectedEOF(c) == [t |-> "UnexpectedEOF", s |-> <<>>, op |-> c, nullIsEmpty |-> FALSE]

itemReadParam(s) == [t |-> "ReadParam", s |-> s, op |-> "", nullIsEmpty |-> FALSE]

itemParamLen(s) == [t |-> "ParamLen", s |-> s, op |-> "", nullIsEmpty |-> FALSE]

itemParamOp(s, op, nie) == [t |-> "ParamOp", s |-> s, op |-> op, nullIsEmpty |-> nie]

NoItem == [t |-> "none", s |-> <<>>, op |-> "", nullIsEmpty |-> FALSE]

(***************************************************************************)
(* The lexer.  l.pc is "top" at the head of run's loop, "send" while an    *)
(* emit is blocked on lexer.stream (l.item is the item, l.after the places *)
(* to resume at), "close" at the deferred close, "done" after it.          *)
(***************************************************************************)
\* the rune the next call of next() returns
peek(x) == IF x.pos >= Len(input) THEN eof ELSE input[x.pos + 1]

next(x) == IF x.pos >= Len(input)
           THEN [x EXCEPT !.width = 0]
           ELSE [x EXCEPT !.width = 1, !.pos = x.pos + 1]

backup(x) == [x EXCEPT !.pos = x.pos - x.width]

token(x) == SubSeq(input, x.start + 1, x.pos)

ignore(x) == [x EXCEPT !.start = x.pos]

\* l.stream <- item: the goroutine blocks until a receiver takes the item
emit(x, item, k) == [x EXCEPT !.pc = "send", !.item = item, !.after = k]

\* a state function returns the next state function to run's loop
return(x, fn) == [x EXCEPT !.pc = "top", !.state = fn, !.item = NoItem, !.after = <<>>]

RECURSIVE Resume(_, _)

emitLastToken(x, k) ==
    LET b == backup(x) IN
    IF b.pos > b.start
    THEN emit(b, itemText(token(b)), <<"emitLastToken:start">> \o k)
    ELSE Resume(b, <<"emitLastToken:next">> \o k)

lexText(x) ==
    LET c == peek(x)
        n == next(x)
    IN  CASE c = eof -> emitLastToken(n, <<"lexText:eof">>)
          [] c = "}" -> IF n.depth > 0
                        THEN emitLastToken(n, <<"lexText:}">>)
                        ELSE Resume(n, <<"lexText">>)
          [] c = "$" -> emitLastToken(n, <<"lexText:$">>)
          [] c = SQuote -> IF n.depth > 0
                        THEN emitLastToken(n, <<"lexText:squote">>)
                        ELSE Resume(n, <<"lexText">>)
          [] c = BSlash -> emitLastToken(n, <<"lexText:backslash">>)
          [] c = DQuote -> IF n.depth > 0
                         THEN emitLastToken(n, <<"lexText:dquote">>)
                         ELSE Resume(n, <<"lexText">>)
          [] OTHER -> Resume(n, <<"lexText">>)

\* as lexTextEscape, with the backslash always removed
lexTextEscape_Removed(x) == Resume(next(x), <<"lexText">>)

\* as lexTextEscape, with the backslash always kept
lexTextEscape_Kept(x) == emit(next(x), itemText(<<BSlash>>), <<"lexText">>)

\* as lexTextEscape, with the backslash kept only outside brackets
lexTextEscape_OutsideOnly(x) ==
    LET c == peek(x)
        n == next(x)
    IN  IF n.depth = 0 /\ c # "$"
        THEN emit(n, itemText(<<BSlash>>), <<"lexText">>)
        ELSE Resume(n, <<"lexText">>)

\* the backslash case of lexText, after emitLastToken
lexTextEscape(x) ==
    LET c == peek(x)
        n == next(x)
    IN  IF (n.depth = 0 /\ c # "$") \/ (n.doubleQuotes /\ c \notin {"$", BTick, DQuote, BSlash})
        THEN emit(n, itemText(<<BSlash>>), <<"lexText">>)
        ELSE Resume(n, <<"lexText">>)

RECURSIVE lexSingleQuoteString(_)
lexSingleQuoteString(x) ==
    LET c == peek(x)
        n == next(x)
    IN  CASE c = eof -> emit(n, itemUnexpectedEOF(SQuote), <<"return:nil">>)
          [] c = SQuote -> emitLastToken(n, <<"return:lexText">>)
          [] OTHER -> lexSingleQuoteString(n)

lexStartExpansion(x) ==
    LET c == peek(x)
        n == next(x)
    IN  CASE c = eof -> emit(n, itemText(<<"$">>), <<"return:nil">>)
          [] c = "{" -> return([ignore(n) EXCEPT !.depth = n.depth + 1], "lexBracketName")
          [] isAlpha(c) -> return(n, "lexSimpleName")
          [] OTHER -> return(n, "nil")

lexEndBracket(x) == return(ignore([x EXCEPT !.depth = x.depth - 1]), "lexText")

RECURSIVE lexSimpleName(_)
lexSimpleName(x) ==
    LET c == peek(x)
        n == next(x)
    IN  IF ~isAlphaNum(c)
        THEN LET b == backup(n) IN emit(b, itemReadParam(token(b)), <<"lexSimpleName:ignore">>)
        ELSE lexSimpleName(n)

RECURSIVE lexBracketNameLoop(_)
lexBracketNameLoop(x) ==
    LET c == peek(x)
        n == next(x)
    IN  CASE c = eof -> emit(n, itemUnexpectedEOF("}"), <<"return:nil">>)
          [] c \in {"}", ":", "-", "?", "+", "="} -> return(backup(n), "lexParamOp")
          [] OTHER -> lexBracketNameLoop(n)

lexBracketName(x) ==
    IF peek(x) = "#"
    THEN return(ignore(next(x)), "lexParamLength")
    ELSE lexBracketNameLoop(backup(next(x)))

\* as lexParamOp, with an end bracket emitted after the item of ${name}
lexParamOp_EndBracket(x) ==
    LET paramName == token(x)
        op == peek(x)
        n == next(x)
    IN  IF op = "}"
        THEN emit(n, itemReadParam(paramName), <<"lexText:}">>)
        ELSE LET nullIsEmpty == (op = ":")
                 op2 == IF nullIsEmpty THEN peek(n) ELSE op
                 n2 == IF nullIsEmpty THEN next(n) ELSE n
             IN  emit(ignore(n2), itemParamOp(paramName, op2, nullIsEmpty), <<"return:lexText">>)

lexParamOp(x) ==
    LET paramName == token(x)
        op == peek(x)
        n == next(x)
    IN  IF op = "}"
        THEN emit(n, itemReadParam(paramName), <<"return:lexEndBracket">>)
        ELSE LET nullIsEmpty == (op = ":")
                 op2 == IF nullIsEmpty THEN peek(n) ELSE op
                 n2 == IF nullIsEmpty THEN next(n) ELSE n
             IN  emit(ignore(n2), itemParamOp(paramName, op2, nullIsEmpty), <<"return:lexText">>)

RECURSIVE lexParamLength(_)
lexParamLength(x) ==
    LET c == peek(x)
        n == next(x)
    IN  CASE c = eof -> emit(n, itemUnexpectedEOF("}"), <<"return:nil">>)
          [] c = "}" -> LET b == backup(n)
                        IN  emit(b, itemParamLen(token(b)), <<"lexParamLength:next">>)
          [] OTHER -> lexParamLength(n)

\* l.state(l): the call of the current state function in run's loop
callState(x) ==
    CASE x.state = "lexText" -> lexText(x)
      [] x.state = "lexSingleQuoteString" -> lexSingleQuoteString(x)
      [] x.state = "lexStartExpansion" -> lexStartExpansion(x)
      [] x.state = "lexEndBracket" -> lexEndBracket(x)
      [] x.state = "lexSimpleName" -> lexSimpleName(x)
      [] x.state = "lexBracketName" -> lexBracketName(x)
      [] x.state = "lexParamOp" -> lexParamOp(x)
      [] x.state = "lexParamLength" -> lexParamLength(x)

\* the lexer goes on from the places k (innermost first) until it blocks in
\* an emit or its state function returns
Resume(x, k) ==
    LET h == Head(k)
        r == Tail(k)
    IN  CASE h = "lexText" -> lexText(x)
          [] h = "emitLastToken:start" -> Resume([x EXCEPT !.start = x.pos], <<"emitLastToken:next">> \o r)
          [] h = "emitLastToken:next" -> Resume(ignore(next(x)), r)
          [] h = "lexText:eof" -> return(x, "nil")
          [] h = "lexText:}" -> emit(x, itemEndBracket, <<"return:lexEndBracket">>)
          [] h = "lexText:$" -> return(x, "lexStartExpansion")
          [] h = "lexText:squote" -> return(x, "lexSingleQuoteString")
          [] h = "lexText:backslash" -> lexTextEscape(x)
          [] h = "lexText:dquote" -> Resume([x EXCEPT !.doubleQuotes = ~x.doubleQuotes], <<"lexText">>)
          [] h = "lexSimpleName:ignore" -> return(ignore(x), "lexText")
          [] h = "lexParamLength:next" -> return(ignore(next(x)), "lexEndBracket")
          [] h = "return:nil" -> return(x, "nil")
          [] h = "return:lexText" -> return(x, "lexText")
          [] h = "return:lexEndBracket" -> return(x, "lexEndBracket")

\* lex(s): the lexer as constructed, its goroutine about to enter run's loop
lex == [state |-> "lexText", pc |-> "top", item |-> NoItem, after |-> <<>>,
        pos |-> 0, start |-> 0, width |-> 0, depth |-> 0, doubleQuotes |-> FALSE]


(***************************************************************************)
(* The mappings: Map (Getter only), RWMap and the process environment      *)
(* (Getter and Setter).                                                    *)
(***************************************************************************)
nil == [kind |-> "nil", arg |-> <<>>]

\* Get of Map, RWMap and environGetSetter: the value and whether the key exists
Get(m, k) == IF k \in DOMAIN m THEN [v |-> m[k], ok |-> TRUE] ELSE [v |-> <<>>, ok |-> FALSE]

\* as isSetter, with the type assertion taken to succeed for every mapping
isSetter_Any(t) == TRUE

\* mapping.(Setter): the dynamic type has a Set method
isSetter(t) == t \in {"RWMap", "Env"}

\* the error Set returns: RWMap.Set never fails, os.Setenv rejects an empty key
SetErr(t, k) == IF t = "Env" /\ k = <<>>
                THEN [kind |-> "setenv", arg |-> <<"invalid argument">>]
                ELSE nil

\* as Set, with the assignment m[k] = v left out
Set_NotStored(m, t, k, v) == m

\* the mapping after Set(k, v)
Set(m, t, k, v) == IF SetErr(t, k) # nil
                   THEN m
                   ELSE [x \in DOMAIN m \cup {k} |-> IF x = k THEN v ELSE m[x]]

\* strconv.Itoa, for n >= 0
RECURSIVE Itoa(_)
Itoa(n) == LET d == <<"0", "1", "2", "3", "4", "5", "6", "7", "8", "9">>
           IN  IF n < 10 THEN <<d[n + 1]>> ELSE Itoa(n \div 10) \o <<d[(n % 10) + 1]>>

(***************************************************************************)
(* The evaluator.  e is the evaluator's view of the state: its call stack, *)
(* the mapping, the goroutines it has started, and what Expand's call of   *)
(* evalStream returned once it has (e.ret).  A frame is a call that is     *)
(* waiting: evalStream or skipStream for the next item of its stream,      *)
(* itemParamOp.Eval (at the place f.at) for the call it made.              *)
(***************************************************************************)
Frame(k, stream, p, paramVal, at) ==
    [k |-> k, stream |-> stream, buf |-> <<>>, p |-> p, paramVal |-> paramVal, at |-> at]

push(e, f) == [e EXCEPT !.stack = Append(e.stack, f)]

pop(e) == [e EXCEPT !.stack = SubSeq(e.stack, 1, Len(e.stack) - 1)]

top(e) == e.stack[Len(e.stack)]

\* go func() {...}() of bracketedStream: the new goroutine sends on channel Len(fwd)
bracketedStream(e, stream) ==
    [e EXCEPT !.fwd = Append(e.fwd, [src |-> stream, pc |-> "recv", item |-> NoItem])]

\* as paramSet, without the nullIsEmpty case
paramSet_ExistsOnly(p, g) == g.ok

\* paramSet of itemParamOp.Eval
paramSet(p, g) == IF p.nullIsEmpty THEN g.v # <<>> ELSE g.ok

\* itemParamOp.Eval up to the call of evalStream or skipStream
itemParamOp_Eval(e, p, stream) ==
    LET g == Get(e.mapping, p.s)
        e1 == [e EXCEPT !.calls = Append(e.calls, <<"Get", p.s>>)]
        sub == Len(e.fwd) + 1
    IN  IF p.op = "+"
        THEN IF paramSet(p, g)
             THEN push(push(bracketedStream(e1, stream), Frame("itemParamOp.Eval", stream, p, g.v, "return evalStream")),
                       Frame("evalStream", sub, NoItem, <<>>, ""))
             ELSE push(push(e1, Frame("itemParamOp.Eval", stream, p, <<>>, "return empty")),
                       Frame("skipStream", stream, NoItem, <<>>, ""))
        ELSE IF paramSet(p, g)
             THEN push(push(bracketedStream(e1, stream), Frame("itemParamOp.Eval", stream, p, g.v, "return paramVal")),
                       Frame("skipStream", sub, NoItem, <<>>, ""))
             ELSE push(push(bracketedStream(e1, stream), Frame("itemParamOp.Eval", stream, p, g.v, "switch op")),
                       Frame("evalStream", sub, NoItem, <<>>, ""))

\* as errorMessage, without the default message
errorMessage_NoDefault(p, v) == v

\* case '?' of itemParamOp.Eval: the message of the error, the operand's
\* value or fmt.Sprintf("%s: parameter null or not set", p.parameter)
errorMessage(p, v) == IF v = <<>> THEN p.s \o <<": parameter null or not set">> ELSE v

\* itemParamOp.Eval from the return of evalStream or skipStream with (v, er):
\* the evaluator state and what Eval returns
itemParamOp_Return(e, f, v, er) ==
    LET p == f.p IN
    CASE f.at = "return evalStream" -> [e |-> e, v |-> v, er |-> er]
      [] f.at = "return empty" -> [e |-> e, v |-> <<>>, er |-> nil]
      [] f.at = "return paramVal" -> [e |-> e, v |-> f.paramVal, er |-> nil]
      [] f.at = "switch op" ->
            IF er # nil THEN [e |-> e, v |-> <<>>, er |-> er]
            ELSE CASE p.op = "-" -> [e |-> e, v |-> v, er |-> nil]
                   [] p.op = "=" ->
                        IF isSetter(kind)
                        THEN LET e1 == [e EXCEPT !.calls = Append(e.calls, <<"Set", p.s, v>>),
                                                 !.mapping = Set(e.mapping, kind, p.s, v)]
                             IN  IF SetErr(kind, p.s) # nil
                                 THEN [e |-> e1, v |-> <<>>, er |-> SetErr(kind, p.s)]
                                 ELSE [e |-> e1, v |-> v, er |-> nil]
                        ELSE [e |-> e, v |-> <<>>, er |-> [kind |-> "does not support assignment", arg |-> <<kind>>]]
                   [] p.op = "?" ->
                        [e |-> e, v |-> <<>>, er |-> [kind |-> "errors.New", arg |-> errorMessage(p, v)]]
                   [] OTHER -> [e |-> e, v |-> <<>>, er |-> [kind |-> "unexpected op", arg |-> <<p.op>>]]

\* a call returns (v, er) to the frame on top of the stack, or to Expand
RECURSIVE Return(_, _, _)
Return(e, v, er) ==
    IF e.stack = <<>>
    THEN [e EXCEPT !.ret = TRUE, !.val = v, !.err = er]
    ELSE LET f == top(e) IN
         IF f.k = "evalStream"
         THEN IF er # nil
              THEN Return(pop(e), <<>>, er)
              ELSE [e EXCEPT !.stack[Len(e.stack)].buf = f.buf \o v]
         ELSE LET r == itemParamOp_Return(pop(e), f, v, er)
              IN  Return(r.e, r.v, r.er)

\* item.Eval(mapping, stream), called by the evalStream on top of the stack
Eval(e, item, stream) ==
    CASE item.t = "Text" -> Return(e, item.s, nil)
      [] item.t = "EndBracket" -> Return(e, <<>>, nil)
      [] item.t = "UnexpectedEOF" -> Return(e, <<>>, [kind |-> "unexpected EOF", arg |-> <<item.op>>])
      [] item.t = "ReadParam" ->
            Return([e EXCEPT !.calls = Append(e.calls, <<"Get", item.s>>)], Get(e.mapping, item.s).v, nil)
      [] item.t = "ParamLen" ->
            Return([e EXCEPT !.calls = Append(e.calls, <<"Get", item.s>>)],
                   Itoa(Len(Get(e.mapping, item.s).v)), nil)
      [] item.t = "ParamOp" -> itemParamOp_Eval(e, item, stream)

\* evalStream: the body of the loop for one item
evalStream(e, item) == Eval(e, item, top(e).stream)

\* evalStream: the stream is closed, the loop ends
evalStreamEnd(e) == Return(pop(e), top(e).buf, nil)

\* skipStream: the stream is closed, the loop ends
skipStreamEnd(e) == Return(pop(e), <<>>, nil)

(***************************************************************************)
(* Channels                                                                *)
(***************************************************************************)
\* a goroutine is blocked sending on channel c
sending(c) == IF c = 0 THEN l.pc = "send" ELSE fwd[c].pc \in {"send", "sendEOF"}

sent(c) == IF c = 0 THEN l.item ELSE fwd[c].item

\* the lexer after its send on channel c was received
lexerAfter(c) == IF c = 0 THEN Resume(l, l.after) ELSE l

\* the lexer's items received so far, after the send on channel c was received
emittedAfter(c) == IF c = 0 THEN Append(emitted, l.item) ELSE emitted

\* the forwarders after the send on channel c was received
fwdAfter(c) ==
    IF c = 0 THEN fwd
    ELSE [fwd EXCEPT ![c] = [src |-> fwd[c].src,
                             pc |-> IF fwd[c].pc = "send" THEN "recv" ELSE "done",
                             item |-> NoItem]]

\* the evaluator's view of the state once the send on channel c was received
evaluator(c) == [stack |-> stack, mapping |-> mapping, calls |-> calls, fwd |-> fwdAfter(c),
                 ret |-> FALSE, val |-> <<>>, err |-> nil]

\* the evaluator's step ends in e
Evaluated(e) ==
    /\ stack' = e.stack
    /\ mapping' = e.mapping
    /\ calls' = e.calls
    /\ fwd' = e.fwd
    /\ mainpc' = IF e.ret THEN "close" ELSE mainpc
    /\ val' = e.val
    /\ err' = e.err


(***************************************************************************)
(* The templates and the mappings of the runs                              *)
(***************************************************************************)
\* the keys "s" (set), "n" (null: present and empty) and "u" (unset)
Names == {<<"s">>, <<"n">>, <<"u">>}

Operators == {<<"-">>, <<"+">>, <<"=">>, <<"?">>, <<":", "-">>, <<":", "+">>, <<":", "=">>, <<":", "?">>}

Expansions(names, ops, words) ==
    {<<"$", "{">> \o n \o o \o w \o <<"}">> : n \in names, o \in ops, w \in words}

\* operands without an operator expansion
PlainWords == {<<>>, <<"w">>, <<"$", "s">>, <<SQuote, "w", SQuote>>}

\* operands with an operator expansion: A${inner<op>w}B
NestedWords ==
    {a \o x \o b : a \in {<<>>, <<"a">>},
                   x \in Expansions({<<"s">>, <<"u">>}, Operators, {<<"w">>}),
                   b \in {<<>>, <<"b">>}}

\* complete templates: P${name<op>word}S, and ${=w} with the empty name
Complete ==
    {p \o x \o z : p \in {<<>>, <<"p">>},
                   x \in Expansions(Names, Operators, PlainWords \cup NestedWords)
                         \cup Expansions({<<>>}, {<<"=">>}, {<<"w">>}),
                   z \in {<<>>, <<"z">>}}

\* every complete template, and every beginning of one: a template may end anywhere
Truncated ==
    UNION {{SubSeq(t, 1, i) : i \in 0..Len(t)} : t \in {c \in Complete : Len(c) <= MaxLen}}

\* templates without a bracket: a backslash, $s, the quotes, a closing
\* bracket and a plain character, in every order
TextUnits == {<<BSlash>>, <<"$", "s">>, <<DQuote>>, <<SQuote>>, <<"}">>, <<".">>}

RECURSIVE TextTemplates(_)
TextTemplates(k) ==
    IF k = 0 THEN {<<>>}
    ELSE {<<>>} \cup {u \o t : u \in TextUnits, t \in TextTemplates(k - 1)}

\* the regions of an operand: single-quoted, double-quoted and unquoted
SingleQuoted == {<<SQuote>> \o x \o <<SQuote>> : x \in {<<"$", "s">>, <<BSlash>>, <<DQuote>>, <<"}">>}}

InDoubleQuotes ==
    {<<"$", "s">>, <<".">>} \cup {<<BSlash, c>> : c \in {"$", BTick, DQuote, BSlash, "."}}

DoubleQuoted == {<<DQuote>> \o x \o <<DQuote>> : x \in InDoubleQuotes}

Unquoted ==
    {<<"$", "s">>, <<".">>} \cup {<<BSlash, c>> : c \in {"}", SQuote, "$", DQuote, BSlash, "."}}

Regions == SingleQuoted \cup DoubleQuoted \cup Unquoted

\* operands of one or two regions, in an expansion that evaluates its operand
QuotedTemplates ==
    {<<"$", "{">> \o n \o r1 \o r2 \o <<"}">> :
        n \in {<<"u", "-">>, <<"s", "+">>}, r1 \in Regions \cup {<<>>}, r2 \in Regions}

\* references without an operator: $name, ${name} and ${#name}
References ==
    {<<"$", "s">>, <<"$", "{", "s", "}">>, <<"$", "{", "#", "s", "}">>, <<"$", "{", "u", "}">>}

\* operands with a reference: A<reference>B
ReferenceWords == {a \o r \o b : a \in {<<>>, <<"a">>}, r \in References, b \in {<<>>, <<".">>}}

ReferenceTemplates ==
    {x \o z : x \in Expansions(Names, Operators, ReferenceWords), z \in {<<>>, <<"z">>}}

\* operands of two operator expansions: ${name<op>${m<op>a}${u<op>w}}
DeepTemplates ==
    Expansions(Names, Operators,
               {x \o y : x \in Expansions({<<"s">>, <<"u">>}, {<<"-">>, <<"?">>}, {<<"a">>}),
                         y \in Expansions({<<"u">>}, {<<"=">>, <<"?">>, <<":", "=">>, <<":", "?">>},
                                           {<<"w">>})})

\* two expansions in a row, the first with a double quote in its operand
TwoTemplates ==
    {<<"$", "{", "u", "-">> \o x \o <<"}", "$", "{", "u", "-", BSlash, ".", "}">> :
        x \in {<<DQuote>>, <<DQuote, ".", DQuote>>, <<DQuote, "}", DQuote>>}}

Templates ==
    Truncated \cup TextTemplates(MaxText) \cup QuotedTemplates \cup ReferenceTemplates
              \cup DeepTemplates \cup TwoTemplates

Kinds == {"Map", "RWMap", "Env"}

\* set = "y", null = "", every other key absent
InitialMapping == [k \in {<<"s">>, <<"n">>} |-> IF k = <<"s">> THEN <<"y">> ELSE <<>>]

(***************************************************************************)
(* Expand(input, mapping) has called lex, which has started the lexer's    *)
(* goroutine, and is about to receive in evalStream.                       *)
(***************************************************************************)
Init ==
    /\ input \in Templates
    /\ kind \in Kinds
    /\ mapping = InitialMapping
    /\ l = lex
    /\ closed = FALSE
    /\ chanClosed = {}
    /\ fwd = <<>>
    /\ stack = <<Frame("evalStream", 0, NoItem, <<>>, "")>>
    /\ mainpc = "eval"
    /\ val = <<>>
    /\ err = nil
    /\ calls = <<>>
    /\ closes = 0
    /\ emitted = <<>>
    /\ first = <<>>

\* lexer.run: one turn of the loop, up to the first emit of the state
\* function or to its return; the deferred close when the loop ends
LexRun ==
    /\ l.pc = "top"
    /\ IF l.state = "nil" \/ closed
       THEN /\ l' = [l EXCEPT !.pc = "done"]
            /\ chanClosed' = chanClosed \cup {0}
            /\ closes' = closes + 1
       ELSE /\ l' = callState(l)
            /\ UNCHANGED <<chanClosed, closes>>
    /\ UNCHANGED <<input, kind, first, mapping, closed, fwd, stack, mainpc, val, err, calls, emitted>>

\* evalStream receives an item and evaluates it
EvalReceive ==
    /\ mainpc = "eval"
    /\ top([stack |-> stack]).k = "evalStream"
    /\ LET c == top([stack |-> stack]).stream IN
        /\ sending(c)
        /\ l' = lexerAfter(c)
        /\ emitted' = emittedAfter(c)
        /\ Evaluated(evalStream(evaluator(c), sent(c)))
    /\ UNCHANGED <<input, kind, first, closed, chanClosed, closes>>

\* evalStream finds its stream closed and returns
EvalEnd ==
    /\ mainpc = "eval"
    /\ top([stack |-> stack]).k = "evalStream"
    /\ top([stack |-> stack]).stream \in chanClosed
    /\ Evaluated(evalStreamEnd(evaluator(0)))
    /\ UNCHANGED <<input, kind, first, l, closed, chanClosed, closes, emitted>>

\* skipStream receives an item and drops it
SkipReceive ==
    /\ mainpc = "eval"
    /\ top([stack |-> stack]).k = "skipStream"
    /\ LET c == top([stack |-> stack]).stream IN
        /\ sending(c)
        /\ l' = lexerAfter(c)
        /\ emitted' = emittedAfter(c)
        /\ fwd' = fwdAfter(c)
    /\ UNCHANGED <<input, kind, first, mapping, closed, chanClosed, stack, mainpc, val, err, calls, closes>>

\* skipStream finds its stream closed and returns
SkipEnd ==
    /\ mainpc = "eval"
    /\ top([stack |-> stack]).k = "skipStream"
    /\ top([stack |-> stack]).stream \in chanClosed
    /\ Evaluated(skipStreamEnd(evaluator(0)))
    /\ UNCHANGED <<input, kind, first, l, closed, chanClosed, closes, emitted>>

\* a bracketedStream goroutine receives an item: it forwards it, or closes
\* its channel at an end bracket
ForwardReceive(c) ==
    /\ fwd[c].pc = "recv"
    /\ sending(fwd[c].src)
    /\ l' = lexerAfter(fwd[c].src)
    /\ emitted' = emittedAfter(fwd[c].src)
    /\ fwd' = [fwdAfter(fwd[c].src) EXCEPT
                 ![c] = IF sent(fwd[c].src).t = "EndBracket"
                        THEN [src |-> fwd[c].src, pc |-> "close", item |-> NoItem]
                        ELSE [src |-> fwd[c].src, pc |-> "send", item |-> sent(fwd[c].src)]]
    /\ UNCHANGED <<input, kind, first, mapping, closed, chanClosed, stack, mainpc, val, err, calls, closes>>

\* as ForwardClose, with close(c) and no return: the goroutine goes on
\* receiving from its source
ForwardClose_NoReturn(c) ==
    /\ fwd[c].pc = "close"
    /\ fwd' = [fwd EXCEPT ![c].pc = "recv"]
    /\ chanClosed' = chanClosed \cup {c}
    /\ UNCHANGED <<input, kind, first, mapping, l, closed, stack, mainpc, val, err, calls, closes, emitted>>

\* close(c) and return, after an end bracket
ForwardClose(c) ==
    /\ fwd[c].pc = "close"
    /\ fwd' = [fwd EXCEPT ![c].pc = "done"]
    /\ chanClosed' = chanClosed \cup {c}
    /\ UNCHANGED <<input, kind, first, mapping, l, closed, stack, mainpc, val, err, calls, closes, emitted>>

\* a bracketedStream goroutine finds its source closed: it goes on to send
\* itemUnexpectedEOF('}')
ForwardEnd(c) ==
    /\ fwd[c].pc = "recv"
    /\ fwd[c].src \in chanClosed
    /\ fwd' = [fwd EXCEPT ![c].pc = "sendEOF", ![c].item = itemUnexpectedEOF("}")]
    /\ UNCHANGED <<input, kind, first, mapping, l, closed, chanClosed, stack, mainpc, val, err, calls, closes, emitted>>

\* lexer.Close: close(l.closed)
Close ==
    /\ mainpc = "close"
    /\ closed' = TRUE
    /\ mainpc' = "drain"
    /\ UNCHANGED <<input, kind, first, mapping, l, chanClosed, fwd, stack, val, err, calls, closes, emitted>>

\* as CloseReceive, with a skipStream that stops at an end bracket
CloseReceive_ToEndBracket ==
    /\ mainpc = "drain"
    /\ sending(0)
    /\ l' = lexerAfter(0)
    /\ emitted' = emittedAfter(0)
    /\ mainpc' = IF sent(0).t = "EndBracket" THEN "returned" ELSE mainpc
    /\ UNCHANGED <<input, kind, first, mapping, closed, chanClosed, fwd, stack, val, err, calls, closes>>

\* as CloseReceive, with a skipStream that looks up the parameter of the
\* item it receives
CloseReceive_Evaluating ==
    /\ mainpc = "drain"
    /\ sending(0)
    /\ l' = lexerAfter(0)
    /\ emitted' = emittedAfter(0)
    /\ calls' = IF sent(0).t \in {"ReadParam", "ParamLen", "ParamOp"}
                THEN Append(calls, <<"Get", sent(0).s>>)
                ELSE calls
    /\ UNCHANGED <<input, kind, first, mapping, closed, chanClosed, fwd, stack, mainpc, val, err, closes>>

\* lexer.Close: skipStream(l.stream) receives an item and drops it
CloseReceive ==
    /\ mainpc = "drain"
    /\ sending(0)
    /\ l' = lexerAfter(0)
    /\ emitted' = emittedAfter(0)
    /\ UNCHANGED <<input, kind, first, mapping, closed, chanClosed, fwd, stack, mainpc, val, err, calls, closes>>

\* lexer.Close: l.stream is closed, skipStream returns and Expand returns
CloseEnd ==
    /\ mainpc = "drain"
    /\ 0 \in chanClosed
    /\ mainpc' = "returned"
    /\ UNCHANGED <<input, kind, first, mapping, l, closed, chanClosed, fwd, stack, val, err, calls, closes, emitted>>

Next ==
    \/ LexRun
    \/ EvalReceive
    \/ EvalEnd
    \/ SkipReceive
    \/ SkipEnd
    \/ \E c \in DOMAIN fwd : ForwardReceive(c)
    \/ \E c \in DOMAIN fwd : ForwardClose(c)
    \/ \E c \in DOMAIN fwd : ForwardEnd(c)
    \/ Close
    \/ CloseReceive
    \/ CloseEnd

Spec == Init /\ [][Next]_vars

\* a caller calls Expand a second time, with the same template and a
\* mapping equal to the first call's initial one, and keeps what the first
\* call returned
ExpandAgain ==
    /\ mainpc = "returned"
    /\ first = <<>>
    /\ first' = <<val, err, calls, mapping>>
    /\ mapping' = InitialMapping
    /\ l' = lex
    /\ closed' = FALSE
    /\ chanClosed' = {}
    /\ fwd' = <<>>
    /\ stack' = <<Frame("evalStream", 0, NoItem, <<>>, "")>>
    /\ mainpc' = "eval"
    /\ val' = <<>>
    /\ err' = nil
    /\ calls' = <<>>
    /\ closes' = 0
    /\ emitted' = <<>>
    /\ UNCHANGED <<input, kind>>

NextTwice ==
    \/ Next
    \/ ExpandAgain

SpecTwice == Init /\ [][NextTwice]_vars


(***************************************************************************)
(* What the claims expect, stated on the template and the initial mapping  *)
(***************************************************************************)
Returned == mainpc = "returned"

Present(n) == n \in DOMAIN InitialMapping

ValueOf(n) == IF Present(n) THEN InitialMapping[n] ELSE <<>>

Colon(o) == Len(o) = 2

OpChar(o) == o[Len(o)]

\* isSet of the POSIX table: present, and with ':' also not empty
IsSet(n, o) == IF Colon(o) THEN ValueOf(n) # <<>> ELSE Present(n)

Expansion(n, o, w) == <<"$", "{">> \o n \o o \o w \o <<"}">>

\* the expansion of an operand without operator expansions
WordValue(w) ==
    CASE w = <<"$", "s">> -> ValueOf(<<"s">>)
      [] w = <<SQuote, "w", SQuote>> -> <<"w">>
      [] OTHER -> w

NoError == [kind |-> "nil", arg |-> <<>>]

NullOrNotSet(n, msg) ==
    [kind |-> "errors.New", arg |-> IF msg = <<>> THEN n \o <<": parameter null or not set">> ELSE msg]

NotSupported(t) == [kind |-> "does not support assignment", arg |-> <<t>>]

\* the POSIX outcome of ${n<o>w} alone, for an operand w whose value is v
Posix(n, o, v) ==
    IF OpChar(o) = "+"
    THEN [val |-> IF IsSet(n, o) THEN v ELSE <<>>, err |-> NoError]
    ELSE IF IsSet(n, o)
         THEN [val |-> ValueOf(n), err |-> NoError]
         ELSE CASE OpChar(o) = "-" -> [val |-> v, err |-> NoError]
                [] OpChar(o) = "?" -> [val |-> <<>>, err |-> NullOrNotSet(n, v)]
                [] OpChar(o) = "=" -> IF kind = "Map"
                                      THEN [val |-> <<>>, err |-> NotSupported(kind)]
                                      ELSE [val |-> v, err |-> NoError]

StartsWith(t, h) == Len(h) <= Len(t) /\ SubSeq(t, 1, Len(h)) = h

Prefixes == {<<>>, <<"p">>}

Suffixes == {<<>>, <<"z">>}

\* the operand of ${n<o>...} is evaluated, and its value is the expansion's
OperandIsValue(n, o) ==
    \/ OpChar(o) = "+" /\ IsSet(n, o)
    \/ OpChar(o) = "-" /\ ~IsSet(n, o)

\* the template ends inside a bracket, and inside a '...' region of it
OpenBrackets(t) == Cardinality({i \in 1..Len(t) : t[i] = "{"}) - Cardinality({i \in 1..Len(t) : t[i] = "}"})

OpenQuote(t) == Cardinality({i \in 1..Len(t) : t[i] = SQuote}) % 2 = 1

SetCalls == {i \in 1..Len(calls) : calls[i][1] = "Set"}

(***************************************************************************)
(* The claims                                                              *)
(***************************************************************************)
\* some goroutine can take a step: the guards of the actions of Next
Runnable ==
    \/ l.pc = "top"
    \/ /\ mainpc = "eval"
       /\ top([stack |-> stack]).k \in {"evalStream", "skipStream"}
       /\ \/ sending(top([stack |-> stack]).stream)
          \/ top([stack |-> stack]).stream \in chanClosed
    \/ \E c \in DOMAIN fwd :
          \/ fwd[c].pc = "recv" /\ (sending(fwd[c].src) \/ fwd[c].src \in chanClosed)
          \/ fwd[c].pc = "close"
    \/ mainpc = "close"
    \/ mainpc = "drain" /\ (sending(0) \/ 0 \in chanClosed)

\* C1: every call of Expand returns: in no reachable state is Expand still
\* running with no goroutine able to take a step.
C1_ExpandReturns == Returned \/ Runnable

\* C2: an operand A${inner<op2>w}B that is evaluated (outer operator - with
\* the parameter not set, or + with the parameter set) has the value
\* A + Expand(${inner<op2>w}) + B, and fails only with the error of
\* Expand(${inner<op2>w}).
C2_NestedOperandAsTopLevel ==
    Returned =>
        \A n1 \in Names, o1 \in Operators :
            (OperandIsValue(n1, o1) /\ StartsWith(input, <<"$", "{">> \o n1 \o o1))
            => \A a \in {<<>>, <<"a">>}, b \in {<<>>, <<"b">>}, n2 \in {<<"s">>, <<"u">>}, o2 \in Operators :
                input = Expansion(n1, o1, a \o Expansion(n2, o2, <<"w">>) \o b)
                => LET x == Posix(n2, o2, <<"w">>)
                   IN  IF x.err = NoError
                       THEN val = a \o x.val \o b /\ err = NoError
                       ELSE val = <<>> /\ err = x.err

\* C3: with the parameter not set, P${name+word}S expands to
\* Expand(P) + Expand(S): only the operand is dropped.
C3_AlternativeDrainsOnlyOperand ==
    Returned =>
        \A p \in Prefixes, n \in Names, o \in {<<"+">>, <<":", "+">>} :
            (~IsSet(n, o) /\ StartsWith(input, p \o <<"$", "{">> \o n \o o))
            => \A w \in PlainWords \cup NestedWords, z \in Suffixes :
                input = p \o Expansion(n, o, w) \o z
                => val = p \o z /\ err = NoError

\* C4: with the parameter set and the operator -, = or ?, P${name<op>W}S
\* expands to P + value(name) + S for every well-formed operand W, also one
\* with a nested operator expansion.
C4_DrainStopsAtMatchingBracket ==
    Returned =>
        \A p \in Prefixes, n \in Names, o \in Operators :
            (/\ OpChar(o) # "+"
             /\ IsSet(n, o)
             /\ StartsWith(input, p \o <<"$", "{">> \o n \o o))
            => \A w \in PlainWords \cup NestedWords, z \in Suffixes :
                input = p \o Expansion(n, o, w) \o z
                => val = p \o ValueOf(n) \o z /\ err = NoError

\* C5: a template that ends inside a bracket or inside a '...' region makes
\* Expand return the empty string and the unexpected-EOF error naming the
\* missing delimiter.
C5_UnterminatedIsError ==
    (Returned /\ OpenBrackets(input) > 0)
    => /\ val = <<>>
       /\ err = [kind |-> "unexpected EOF", arg |-> IF OpenQuote(input) THEN <<SQuote>> ELSE <<"}">>]

\* C6: once Expand has returned and every goroutine that can still run has
\* run, no bracketedStream goroutine is left: each has returned.
C6_NoForwarderLeft ==
    (Returned /\ ~Runnable) => \A c \in DOMAIN fwd : fwd[c].pc = "done"

\* C7: when Expand has returned, the lexer goroutine has finished and has
\* closed l.stream exactly once; it never sends on the closed channel.
C7_LexerFinished ==
    /\ Returned => (l.pc = "done" /\ 0 \in chanClosed /\ closes = 1)
    /\ closes <= 1
    /\ l.pc = "send" => 0 \notin chanClosed

C7_Witness ==
    /\ Returned
    /\ err # NoError
    /\ l.pc = "done"
    /\ l.pos < Len(input)

\* C8: P${name<op>word} with a plain-text word and op one of -, +, ?
\* (with or without ':') follows the POSIX table, with isSet = present, or
\* present and not empty with ':'.
C8_PosixTable ==
    Returned =>
        \A p \in Prefixes, n \in Names, o \in Operators, w \in {<<>>, <<"w">>} :
            (OpChar(o) # "=" /\ input = p \o Expansion(n, o, w))
            => LET x == Posix(n, o, w)
               IN  IF x.err = NoError
                   THEN val = p \o x.val /\ err = NoError
                   ELSE val = <<>> /\ err = x.err

C8_Witness ==
    /\ Returned
    /\ input = <<"$", "{", "n", ":", "-", "w", "}">>
    /\ val = <<"w">>

\* C9: with a mapping that implements Setter, P${name=word}S (and :=) with
\* the parameter not set returns the expanded word and leaves the mapping
\* with name -> expanded word and every other key as it was; with the
\* parameter set it returns the value and Set is never called.
C9_AssignDefault ==
    (Returned /\ kind # "Map") =>
        \A p \in Prefixes, z \in Suffixes, n \in Names, o \in {<<"=">>, <<":", "=">>}, w \in PlainWords :
            input = p \o Expansion(n, o, w) \o z
            => IF IsSet(n, o)
               THEN /\ val = p \o ValueOf(n) \o z
                    /\ err = NoError
                    /\ SetCalls = {}
                    /\ mapping = InitialMapping
               ELSE /\ val = p \o WordValue(w) \o z
                    /\ err = NoError
                    /\ DOMAIN mapping = DOMAIN InitialMapping \cup {n}
                    /\ mapping[n] = WordValue(w)
                    /\ \A k \in DOMAIN InitialMapping \ {n} : mapping[k] = InitialMapping[k]

C9_Witness ==
    /\ Returned
    /\ kind = "RWMap"
    /\ input = <<"$", "{", "u", ":", "=", "w", "}">>
    /\ mapping[<<"u">>] = <<"w">>

\* C10: when = falls back and the mapping has no Set method, Expand returns
\* the empty string and the assignment-unsupported error; when Set fails
\* (the environment rejects the empty name), Expand returns the empty
\* string and that error.  The mapping is left as it was.
C10_AssignFails ==
    Returned =>
        \A p \in Prefixes, z \in Suffixes :
            /\ \A n \in Names, o \in {<<"=">>, <<":", "=">>}, w \in PlainWords :
                (kind = "Map" /\ ~IsSet(n, o) /\ input = p \o Expansion(n, o, w) \o z)
                => val = <<>> /\ err = NotSupported("Map") /\ mapping = InitialMapping
            /\ (kind = "Env" /\ input = p \o Expansion(<<>>, <<"=">>, <<"w">>) \o z)
                => /\ val = <<>>
                   /\ err = [kind |-> "setenv", arg |-> <<"invalid argument">>]
                   /\ mapping = InitialMapping

C10_Witness ==
    /\ Returned
    /\ kind = "Map"
    /\ input = <<"p", "$", "{", "n", ":", "=", "w", "}", "z">>
    /\ err = NotSupported("Map")

\* C11: Expand never returns both a result and an error: with an error the
\* string is empty, and without one the string is the complete expansion
\* of the whole template: for P${name<op>word}S with an operand without
\* operator expansions, P, the POSIX value of the expansion, and S.
C11_ResultOrError ==
    Returned =>
        /\ err # NoError => val = <<>>
        /\ \A p \in Prefixes, z \in Suffixes, n \in Names, o \in Operators, w \in PlainWords :
            (err = NoError /\ input = p \o Expansion(n, o, w) \o z)
            => LET x == Posix(n, o, WordValue(w))
               IN  x.err = NoError /\ val = p \o x.val \o z

\* C12: P${name?word}S and P${name:?word}S with an operand without
\* operator expansions: when the parameter is not set Expand fails with
\* the expansion of the operand as the message, and with "<name>:
\* parameter null or not set" when that expansion is empty; when the
\* parameter is set the operand is not evaluated (the only lookup is that
\* of name) and the result is P, the value, and S, without error.
C12_ErrorIfUnset ==
    Returned =>
        \A p \in Prefixes, z \in Suffixes, n \in Names, o \in {<<"?">>, <<":", "?">>}, w \in PlainWords :
            input = p \o Expansion(n, o, w) \o z
            => IF IsSet(n, o)
               THEN /\ val = p \o ValueOf(n) \o z
                    /\ err = NoError
                    /\ calls = <<<<"Get", n>>>>
               ELSE /\ val = <<>>
                    /\ err = [kind |-> "errors.New",
                              arg |-> IF WordValue(w) = <<>>
                                      THEN n \o <<": parameter null or not set">>
                                      ELSE WordValue(w)]

C12_Witness ==
    /\ Returned
    /\ input = <<"p", "$", "{", "n", ":", "?", "}", "z">>
    /\ err = [kind |-> "errors.New", arg |-> <<"n", ": parameter null or not set">>]

\* C13: every template without a $ is a fixed point of Expand: the result
\* is the template itself, with no error, and no call is made on the
\* mapping; that holds with }, the quotes and backslashes in the template,
\* a trailing backslash included.
C13_NoDollarFixedPoint ==
    (Returned /\ \A i \in 1..Len(input) : input[i] # "$")
    => (val = input /\ err = NoError /\ calls = <<>>)

C13_Witness ==
    /\ Returned
    /\ input = <<"}", DQuote, BSlash>>
    /\ val = input

\* the item of a reference without an operator, and its value
ReferenceItem(r) ==
    CASE r = <<"$", "s">> -> itemReadParam(<<"s">>)
      [] r = <<"$", "{", "s", "}">> -> itemReadParam(<<"s">>)
      [] r = <<"$", "{", "u", "}">> -> itemReadParam(<<"u">>)
      [] r = <<"$", "{", "#", "s", "}">> -> itemParamLen(<<"s">>)

ReferenceValue(r) ==
    CASE r = <<"$", "s">> -> ValueOf(<<"s">>)
      [] r = <<"$", "{", "s", "}">> -> ValueOf(<<"s">>)
      [] r = <<"$", "{", "u", "}">> -> <<>>
      [] r = <<"$", "{", "#", "s", "}">> -> <<"1">>

TextItems(t) == IF t = <<>> THEN <<>> ELSE <<itemText(t)>>

\* C14: in ${name<op>A<reference>B}S, with <reference> one of $s, ${s},
\* ${u} and ${#s}, the reference does not end the operand: the lexer emits
\* one end bracket, after the items of A, the reference and B, and the
\* result is that of the POSIX table for the operand value A + value + B,
\* followed by S.  (The result of + with the parameter not set, where the
\* code drains S as well, is left to C3.)
C14_ReferenceInsideOperand ==
    Returned =>
        \A n \in Names, o \in Operators, a \in {<<>>, <<"a">>}, r \in References,
           b \in {<<>>, <<".">>}, z \in Suffixes :
            input = Expansion(n, o, a \o r \o b) \o z
            => LET items == <<itemParamOp(n, OpChar(o), Colon(o))>> \o TextItems(a)
                            \o <<ReferenceItem(r)>> \o TextItems(b) \o <<itemEndBracket>>
                            \o TextItems(z)
                   x == Posix(n, o, a \o ReferenceValue(r) \o b)
               IN  /\ StartsWith(items, emitted)
                   /\ err = NoError => emitted = items
                   /\ (OpChar(o) = "+" /\ ~IsSet(n, o))
                      \/ IF x.err = NoError
                         THEN val = x.val \o z /\ err = NoError
                         ELSE val = <<>> /\ err = x.err

C14_Witness ==
    /\ Returned
    /\ input = <<"$", "{", "n", ":", "-", "a", "$", "{", "s", "}", ".", "}", "z">>
    /\ val = <<"a", "y", ".", "z">>

\* the templates without a bracket
Texts == TextTemplates(MaxText)

\* the expansion of a template without a bracket, as C15 has it: \$ gives
\* $, $s gives the value of s, everything else is copied
RECURSIVE DepthZeroValue(_)
DepthZeroValue(t) ==
    IF t = <<>> THEN <<>>
    ELSE IF t[1] = BSlash
    THEN IF Len(t) = 1 THEN t
         ELSE IF t[2] = "$" THEN <<"$">> \o DepthZeroValue(SubSeq(t, 3, Len(t)))
         ELSE <<t[1], t[2]>> \o DepthZeroValue(SubSeq(t, 3, Len(t)))
    ELSE IF t[1] = "$"
    THEN ValueOf(<<t[2]>>) \o DepthZeroValue(SubSeq(t, 3, Len(t)))
    ELSE <<t[1]>> \o DepthZeroValue(SubSeq(t, 2, Len(t)))

\* C15: outside any bracket the only escape is \$, which gives a literal $
\* whose name is not expanded; a backslash before any other character and
\* the quote characters are copied unchanged, and $name between quotes is
\* expanded.
C15_DepthZeroEscapes ==
    (Returned /\ input \in Texts) => (val = DepthZeroValue(input) /\ err = NoError)

C15_Witness ==
    /\ Returned
    /\ input = <<BSlash, "$", "s", SQuote>>
    /\ val = <<"$", "s", SQuote>>

\* the value of a region of an operand, as C16 has it: '...' gives what is
\* between the quotes; in "..." and outside quotes $s gives the value of s;
\* in "..." a backslash is removed before $, `, " and \ and kept before
\* every other character; outside quotes a backslash is removed
RegionValue(r) ==
    CASE r = <<>> -> <<>>
      [] r \in SingleQuoted -> SubSeq(r, 2, Len(r) - 1)
      [] r \in DoubleQuoted ->
            LET x == SubSeq(r, 2, Len(r) - 1)
            IN  CASE x = <<"$", "s">> -> ValueOf(<<"s">>)
                  [] x[1] = BSlash /\ x[2] \in {"$", BTick, DQuote, BSlash} -> <<x[2]>>
                  [] OTHER -> x
      [] r \in Unquoted ->
            CASE r = <<"$", "s">> -> ValueOf(<<"s">>)
              [] r[1] = BSlash -> <<r[2]>>
              [] OTHER -> r

\* C16: in an operand that is evaluated, a '...' region is copied without
\* its quotes and with no expansion or escape inside it; a " is not
\* copied, and between two of them $s is expanded and a backslash is
\* removed only before $, `, " and \; outside quotes a backslash is
\* removed and the character after it (}, ' and $ included) is text.
C16_QuotesInsideOperand ==
    (Returned /\ input \in QuotedTemplates) =>
        \A n \in {<<"u", "-">>, <<"s", "+">>}, r1 \in Regions \cup {<<>>}, r2 \in Regions :
            input = <<"$", "{">> \o n \o r1 \o r2 \o <<"}">>
            => (val = RegionValue(r1) \o RegionValue(r2) /\ err = NoError)

C16_Witness ==
    /\ Returned
    /\ input = <<"$", "{", "u", "-", DQuote, BSlash, ".", DQuote, BSlash, "}", "}">>
    /\ val = <<BSlash, ".", "}">>

C18_NoCallAfterError ==
    [][/\ err # NoError => calls' = calls
       /\ (err = NoError /\ err' # NoError /\ calls' # calls)
          => /\ err'.kind = "setenv"
             /\ Len(calls') = Len(calls) + 1
             /\ calls'[Len(calls')][1] = "Set"]_vars

\* an item with a parameter was received after the failure and not looked up
C18_Witness ==
    /\ Returned
    /\ err # NoError
    /\ input \in DeepTemplates
    /\ emitted[Len(emitted)] = itemParamOp(<<"u">>, "=", FALSE)
    /\ Len(calls) = 2

\* C19: the lexer's double-quote flag is set only inside a bracket: when
\* the depth is 0 the flag is off.
C19_DoubleQuotesOnlyInsideBracket == l.doubleQuotes => l.depth > 0

\* the items of a kind that the lexer's sends have delivered
Emitted(kinds) == Cardinality({i \in 1..Len(emitted) : emitted[i].t \in kinds})

\* C20: once the lexer has run to the end of the template, every bracket
\* it opened for an operand (every operator item it emitted) has its one
\* end bracket or unexpected-end item; the depth is never negative, and a
\* } at depth 0 is text: with no bracket opened no end bracket is emitted.
\* (${name} and ${#name} raise the depth as well and have no end bracket of
\* their own, see C14: they are not counted.)
C20_BracketsClosed ==
    /\ l.depth >= 0
    /\ Emitted({"ParamOp"}) = 0 => Emitted({"EndBracket"}) = 0
    /\ (l.pc = "done" /\ ~closed)
       => Emitted({"ParamOp"}) <= Emitted({"EndBracket", "UnexpectedEOF"})

\* C21: the outcome of Expand does not depend on the scheduling of the
\* lexer, the forwarders and the evaluator: a second call with the same
\* template and the same initial mapping, under any interleaving, returns
\* whenever the first did, and with the same string, the same error, the
\* same sequence of Get and Set calls and the same final mapping.
C21_SchedulingIndependent ==
    first # <<>> =>
        /\ Returned \/ Runnable
        /\ Returned => <<val, err, calls, mapping>> = first

\* both calls have returned a value, each having run two forwarders beside
\* the lexer and called Set
C21_Witness ==
    /\ first # <<>>
    /\ Returned
    /\ Len(fwd) = 2
    /\ err = NoError
    /\ SetCalls # {}
    /\ <<val, err, calls, mapping>> = first

====
